---- MODULE Spec2Model ----
(***************************************************************************)
(* Model of parallel-exec/lib/lib.go: runner.Run, cmdController.Run,       *)
(* cmdController.Kill and the channel semaphore.                           *)
(*                                                                         *)
(* One goroutine per command (the "command task"), the signal watcher,     *)
(* the WaitGroup waiter and the goroutine that called runner.Run (the      *)
(* "main" task) are interleaved one statement group at a time.  Blocking   *)
(* operations (Lock, channel send/receive, WaitGroup.Wait, Cmd.Wait) are   *)
(* guards.  doneC is unbuffered: a send happens only together with the     *)
(* single receive of runner.Run.  The operating system's part (a process   *)
(* exits, an interrupt arrives) is a step of the environment.              *)
(* Clock values and the "cmd"/"duration" event fields are left out.        *)
(*                                                                         *)
(* Spec, NoLimitSpec, FairSpec and ExitFairSpec are runner.Run, which      *)
(* calls Run() and Kill() once per controller.  ControllerSpec is one      *)
(* cmdController on its own, called by several goroutines several times.   *)
(* LicenseSpec is update-license (updateData, updateLines, addToLines)     *)
(* run repeatedly on one file.                                             *)
(***************************************************************************)
EXTENDS Integers, Sequences, FiniteSets

\* ---------------------------------------------------------------- bounds
MaxCmds == 2
MaxConcurrent == 1
MaxSignals == 1
\* The controller exercised on its own: how many callers, and how many calls
\* of Run() or Kill() each of them makes.
MaxCallers == 3
MaxCalls == 2
\* update-license: the longest file tried, in lines, and the number of runs
\* made on it.
MaxLines == 5
MaxRuns == 2

\* The values of MaxConcurrentCmds tried: 0 ("unlimited") and the limits up
\* to MaxConcurrent; and, for the runs about the nil semaphore, the values
\* that newSemaphore turns into nil.
ConcurrencyChoices == 0..MaxConcurrent
NoLimitChoices == {-1, 0}

Cmds(n) == 1..n
Callers == 1..MaxCallers

VARIABLES
    fastFail,       \* runnerOptions.FastFail
    maxConcurrent,  \* runnerOptions.MaxConcurrentCmds
    nCmds,          \* len(cmds)
    mainPc,         \* position of runner.Run
    spawnIdx,       \* index of the spawn loop (lib.go:275)
    killIdx,        \* index of the kill loop (lib.go:300)
    err,            \* the shared "var err error" (lib.go:253)
    retVal,         \* what runner.Run returned
    signalC,        \* number of signals buffered in signalC (capacity 1)
    nSignals,       \* interrupts delivered so far by the environment
    watcherPc,      \* position of the signal goroutine (lib.go:262)
    waiterPc,       \* position of the waitGroup goroutine (lib.go:292)
    wg,             \* the WaitGroup counter
    sem,            \* the semaphore
    ctl,            \* per command: cmdController.Started / Finished
    lock,           \* per command: who holds cmdController.Lock
    proc,           \* per command: Cmd.Process and the state of the OS process
    exitErr,        \* per command: the process ended with an error status
    taskPc,         \* per command: position of the command task
    waitErr,        \* per command: the local err of cmdController.Run
    runRet,         \* per command: what cmdController.Run returned
    events,         \* the calls made to the EventHandler, in order
    sigMidFlight,   \* history: an interrupt arrived while a command was
                    \*   Started and not Finished
    queuedAtFail,   \* history: the commands that were not Started when some
                    \*   command's Run() failed
    callers,        \* the callers of one controller's Run() and Kill() when
                    \*   the controller is exercised on its own (ControllerSpec)
    file            \* update-license: the lines of the file being updated and
                    \*   the runs made on it (LicenseSpec)

vars == <<fastFail, maxConcurrent, nCmds, mainPc, spawnIdx, killIdx, err, retVal,
          signalC, nSignals, watcherPc, waiterPc, wg, sem, ctl, lock, proc,
          exitErr, taskPc, waitErr, runRet, events, sigMidFlight, queuedAtFail,
          callers, file>>

runnerVars == <<mainPc, spawnIdx, killIdx, retVal>>
optionVars == <<fastFail, maxConcurrent, nCmds>>
signalVars == <<signalC, nSignals, sigMidFlight>>
procVars == <<proc, exitErr>>
taskVars == <<taskPc, waitErr, runRet>>

\* A controller whose command is mid-flight; one whose Run() has not set
\* Started yet.
MidFlight(c) == c.Started /\ ~c.Finished
Queued(c) == ~c.Started

\* ------------------------------------------------------------ error values
errNil == "nil"
errCmdFailed == "command failed"
errInterrupted == "interrupted"
errStart == "command could not start"
errExit == "command had error"
errKill == "command had error on kill"

\* ------------------------------------------------------------------ events
EventTypeStarted == "started"
EventTypeCmdStarted == "cmd_started"
EventTypeCmdFinished == "cmd_finished"
EventTypeFinished == "finished"

newEvent(e, c, f) == [type |-> e, cmd |-> c, err |-> f]
newStartedEvent == newEvent(EventTypeStarted, 0, errNil)
newCmdStartedEvent(c) == newEvent(EventTypeCmdStarted, c, errNil)
newCmdFinishedEvent(c, e) == newEvent(EventTypeCmdFinished, c, e)
\* Faulty variant: the finished event built with the started type.
newFinishedEvent_WrongType(e) == newEvent(EventTypeStarted, 0, e)
newFinishedEvent(e) == newEvent(EventTypeFinished, 0, e)

\* --------------------------------------------------------------- semaphore
\* Faulty variant: "n < 0" for "n <= 0", so that 0 makes a channel without
\* capacity.
newSemaphore_ZeroIsChannel(n) ==
    IF n < 0 THEN [isNil |-> TRUE, cap |-> 0, tokens |-> 0]
    ELSE [isNil |-> FALSE, cap |-> n, tokens |-> n]

\* lib.go:380-389: a nil channel, or a channel of capacity n holding n tokens.
newSemaphore(n) ==
    IF n <= 0 THEN [isNil |-> TRUE, cap |-> 0, tokens |-> 0]
    ELSE [isNil |-> FALSE, cap |-> n, tokens |-> n]

\* P(1) returns at once on nil, else receives one token (blocks on none).
semCanP(s) == s.isNil \/ s.tokens > 0
\* Faulty variant: P returns without taking a token.
semP_NoReceive(s) == s
semP(s) == IF s.isNil THEN s ELSE [s EXCEPT !.tokens = @ - 1]

\* V(1) returns at once on nil, else sends one token (blocks on a full channel).
semCanV(s) == s.isNil \/ s.tokens < s.cap
semV(s) == IF s.isNil THEN s ELSE [s EXCEPT !.tokens = @ + 1]

\* -------------------------------------------------------------- controller
newCmdController == [Started |-> FALSE, Finished |-> FALSE]

\* Faulty variant: the re-entry guard of Run tests Finished only.
runAlreadyHandled_FinishedOnly(c) == c.Finished

\* Faulty variant: Run without its re-entry guard.
runAlreadyHandled_NoGuard(c) == FALSE
\* cmdController.Run, lib.go:325: the re-entry guard.
runAlreadyHandled(c) == c.Started \/ c.Finished

\* Faulty variant: Run does not look at Finished after Wait.
finishAlreadyHandled_NoCheck(c) == FALSE
\* cmdController.Run, lib.go:348: Kill already marked the controller finished.
finishAlreadyHandled(c) == c.Finished

\* cmdController.Kill under the lock, lib.go:359-375, as a function of the
\* controller c and the process state p: the new controller, the new process
\* state, whether Process.Kill is called and the events emitted for command i.
\* Process.Kill ends a running process, succeeds with no effect on one that
\* has exited and is not yet waited for, and fails once Wait has returned.
processKillErr(p) == IF p = "reaped" THEN errKill ELSE errNil
processKillState(p) == IF p = "running" THEN "exited" ELSE p

\* Faulty variant: Kill leaves a controller that never started untouched.
killEffect_NoMarkIdle(i, c, p) ==
    IF ~c.Started
    THEN [c |-> c, p |-> p, killed |-> FALSE, ev |-> <<>>]
    ELSE IF c.Finished
    THEN [c |-> c, p |-> p, killed |-> FALSE, ev |-> <<>>]
    ELSE IF p # "nil"
    THEN [c |-> [c EXCEPT !.Finished = TRUE], p |-> processKillState(p),
          killed |-> TRUE, ev |-> <<newCmdFinishedEvent(i, processKillErr(p))>>]
    ELSE [c |-> [c EXCEPT !.Finished = TRUE], p |-> p,
          killed |-> FALSE, ev |-> <<>>]

\* Faulty variant: Kill of a launched command emits no cmd_finished.
killEffect_NoEmit(i, c, p) ==
    IF ~c.Started
    THEN [c |-> [Started |-> TRUE, Finished |-> TRUE], p |-> p,
          killed |-> FALSE, ev |-> <<>>]
    ELSE IF c.Finished
    THEN [c |-> c, p |-> p, killed |-> FALSE, ev |-> <<>>]
    ELSE IF p # "nil"
    THEN [c |-> [c EXCEPT !.Finished = TRUE], p |-> processKillState(p),
          killed |-> TRUE, ev |-> <<>>]
    ELSE [c |-> [c EXCEPT !.Finished = TRUE], p |-> p,
          killed |-> FALSE, ev |-> <<>>]

\* Faulty variant: Kill marks a controller that never started as started,
\* not as finished.
killEffect_StartedOnly(i, c, p) ==
    IF ~c.Started
    THEN [c |-> [Started |-> TRUE, Finished |-> FALSE], p |-> p,
          killed |-> FALSE, ev |-> <<>>]
    ELSE IF c.Finished
    THEN [c |-> c, p |-> p, killed |-> FALSE, ev |-> <<>>]
    ELSE IF p # "nil"
    THEN [c |-> [c EXCEPT !.Finished = TRUE], p |-> processKillState(p),
          killed |-> TRUE, ev |-> <<newCmdFinishedEvent(i, processKillErr(p))>>]
    ELSE [c |-> [c EXCEPT !.Finished = TRUE], p |-> p,
          killed |-> FALSE, ev |-> <<>>]

\* Faulty variant: Kill without the test of Finished (lib.go:364-366).
killEffect_NoFinishedCheck(i, c, p) ==
    IF ~c.Started
    THEN [c |-> [Started |-> TRUE, Finished |-> TRUE], p |-> p,
          killed |-> FALSE, ev |-> <<>>]
    ELSE IF p # "nil"
    THEN [c |-> [c EXCEPT !.Finished = TRUE], p |-> processKillState(p),
          killed |-> TRUE, ev |-> <<newCmdFinishedEvent(i, processKillErr(p))>>]
    ELSE [c |-> [c EXCEPT !.Finished = TRUE], p |-> p,
          killed |-> FALSE, ev |-> <<>>]

\* Faulty variant: Kill of a controller that never started sets Finished
\* and leaves Started false.
killEffect_IdleFinishedOnly(i, c, p) ==
    IF ~c.Started
    THEN [c |-> [Started |-> FALSE, Finished |-> TRUE], p |-> p,
          killed |-> FALSE, ev |-> <<>>]
    ELSE IF c.Finished
    THEN [c |-> c, p |-> p, killed |-> FALSE, ev |-> <<>>]
    ELSE IF p # "nil"
    THEN [c |-> [c EXCEPT !.Finished = TRUE], p |-> processKillState(p),
          killed |-> TRUE, ev |-> <<newCmdFinishedEvent(i, processKillErr(p))>>]
    ELSE [c |-> [c EXCEPT !.Finished = TRUE], p |-> p,
          killed |-> FALSE, ev |-> <<>>]

\* Faulty variant: Kill emits its cmd_finished without the error of
\* Process.Kill.
killEffect_DropKillErr(i, c, p) ==
    IF ~c.Started
    THEN [c |-> [Started |-> TRUE, Finished |-> TRUE], p |-> p,
          killed |-> FALSE, ev |-> <<>>]
    ELSE IF c.Finished
    THEN [c |-> c, p |-> p, killed |-> FALSE, ev |-> <<>>]
    ELSE IF p # "nil"
    THEN [c |-> [c EXCEPT !.Finished = TRUE], p |-> processKillState(p),
          killed |-> TRUE, ev |-> <<newCmdFinishedEvent(i, errNil)>>]
    ELSE [c |-> [c EXCEPT !.Finished = TRUE], p |-> p,
          killed |-> FALSE, ev |-> <<>>]

\* lib.go:359-375.
killEffect(i, c, p) ==
    IF ~c.Started
    THEN [c |-> [Started |-> TRUE, Finished |-> TRUE], p |-> p,
          killed |-> FALSE, ev |-> <<>>]
    ELSE IF c.Finished
    THEN [c |-> c, p |-> p, killed |-> FALSE, ev |-> <<>>]
    ELSE IF p # "nil"
    THEN [c |-> [c EXCEPT !.Finished = TRUE], p |-> processKillState(p),
          killed |-> TRUE, ev |-> <<newCmdFinishedEvent(i, processKillErr(p))>>]
    ELSE [c |-> [c EXCEPT !.Finished = TRUE], p |-> p,
          killed |-> FALSE, ev |-> <<>>]

\* -------------------------------------------------------------------- Init
\* The state of runner.Run after signal.Notify and the "go" of the signal
\* goroutine (lib.go:253-271): controllers built, nothing emitted yet.
InitWith(choices) ==
    /\ fastFail \in BOOLEAN
    /\ maxConcurrent \in choices
    /\ nCmds \in 0..MaxCmds
    /\ mainPc = "emitStarted"
    /\ spawnIdx = 1
    /\ killIdx = 1
    /\ err = errNil
    /\ retVal = errNil
    /\ signalC = 0
    /\ nSignals = 0
    /\ watcherPc = "recv"
    /\ waiterPc = "unspawned"
    /\ wg = 0
    /\ sem = newSemaphore(maxConcurrent)
    /\ ctl = [i \in Cmds(nCmds) |-> newCmdController]
    /\ lock = [i \in Cmds(nCmds) |-> "free"]
    /\ proc = [i \in Cmds(nCmds) |-> "nil"]
    /\ exitErr = [i \in Cmds(nCmds) |-> FALSE]
    /\ taskPc = [i \in Cmds(nCmds) |-> "unspawned"]
    /\ waitErr = [i \in Cmds(nCmds) |-> FALSE]
    /\ runRet = [i \in Cmds(nCmds) |-> TRUE]
    /\ events = <<>>
    /\ sigMidFlight = FALSE
    /\ queuedAtFail = {}
    /\ callers = <<>>
    /\ file = <<>>

Init == InitWith(ConcurrencyChoices)

\* The same, with MaxConcurrentCmds <= 0 only.
NoLimitInit == InitWith(NoLimitChoices)

\* The commands whose Run() has not set Started yet.
QueuedNow == {j \in Cmds(nCmds) : Queued(ctl[j])}

\* ------------------------------------------------------------- environment
\* os.Interrupt arrives: signal.Notify's non-blocking send into signalC
\* (capacity 1) drops the signal when the buffer is full.
Interrupt ==
    /\ nSignals < MaxSignals
    /\ nSignals' = nSignals + 1
    /\ signalC' = IF signalC < 1 THEN signalC + 1 ELSE signalC
    /\ sigMidFlight' = (sigMidFlight \/ \E i \in Cmds(nCmds) : MidFlight(ctl[i]))
    /\ UNCHANGED <<optionVars, callers, file, runnerVars, err, watcherPc, waiterPc, wg, sem, ctl,
                   lock, procVars, taskVars, events, queuedAtFail>>

\* A launched process exits on its own, with or without an error status.
ProcExit(i) ==
    /\ proc[i] = "running"
    /\ \E failed \in BOOLEAN :
          /\ proc' = [proc EXCEPT ![i] = "exited"]
          /\ exitErr' = [exitErr EXCEPT ![i] = failed]
    /\ UNCHANGED <<optionVars, callers, file, runnerVars, err, signalVars, watcherPc, waiterPc, wg,
                   sem, ctl, lock, taskVars, events, queuedAtFail>>

\* ---------------------------------------------------------- signal watcher
\* lib.go:263: for _ = range signalC
WatcherRecv ==
    /\ watcherPc = "recv"
    /\ signalC > 0
    /\ signalC' = signalC - 1
    /\ watcherPc' = "setErr"
    /\ UNCHANGED <<optionVars, callers, file, runnerVars, err, nSignals, sigMidFlight, waiterPc, wg,
                   sem, ctl, lock, procVars, taskVars, events, queuedAtFail>>

\* Faulty variant: WatcherSetErr without the write of err.
WatcherSetErr_NoWrite ==
    /\ watcherPc = "setErr"
    /\ watcherPc' = "send"
    /\ UNCHANGED <<optionVars, callers, file, runnerVars, err, signalVars, waiterPc, wg, sem, ctl, lock,
                   procVars, taskVars, events, queuedAtFail>>

\* lib.go:264: err = errInterrupted
WatcherSetErr ==
    /\ watcherPc = "setErr"
    /\ err' = errInterrupted
    /\ watcherPc' = "send"
    /\ UNCHANGED <<optionVars, callers, file, runnerVars, signalVars, waiterPc, wg, sem, ctl, lock,
                   procVars, taskVars, events, queuedAtFail>>

\* Faulty variant: the signal goroutine returns without its send on doneC
\* being received by runner.Run.
WatcherSendDone_NoWake ==
    /\ watcherPc = "send"
    /\ watcherPc' = "done"
    /\ UNCHANGED <<optionVars, callers, file, runnerVars, err, signalVars, waiterPc, wg, sem, ctl,
                   lock, procVars, taskVars, events, queuedAtFail>>

\* lib.go:265-266 with lib.go:299: doneC <- struct{}{} meets <-doneC
WatcherSendDone ==
    /\ watcherPc = "send"
    /\ mainPc = "recv"
    /\ watcherPc' = "done"
    /\ mainPc' = "kill"
    /\ UNCHANGED <<optionVars, callers, file, spawnIdx, killIdx, retVal, err, signalVars, waiterPc,
                   wg, sem, ctl, lock, procVars, taskVars, events, queuedAtFail>>

\* ------------------------------------------------------------------ waiter
\* Faulty variant: the waiter does not wait for the WaitGroup counter.
WaiterWait_NoWait ==
    /\ waiterPc = "wait"
    /\ waiterPc' = "send"
    /\ UNCHANGED <<optionVars, callers, file, runnerVars, err, signalVars, watcherPc, wg, sem, ctl,
                   lock, procVars, taskVars, events, queuedAtFail>>

\* lib.go:296: waitGroup.Wait()
WaiterWait ==
    /\ waiterPc = "wait"
    /\ wg = 0
    /\ waiterPc' = "send"
    /\ UNCHANGED <<optionVars, callers, file, runnerVars, err, signalVars, watcherPc, wg, sem, ctl,
                   lock, procVars, taskVars, events, queuedAtFail>>

\* lib.go:297 with lib.go:299
WaiterSendDone ==
    /\ waiterPc = "send"
    /\ mainPc = "recv"
    /\ waiterPc' = "done"
    /\ mainPc' = "kill"
    /\ UNCHANGED <<optionVars, callers, file, spawnIdx, killIdx, retVal, err, signalVars, watcherPc,
                   wg, sem, ctl, lock, procVars, taskVars, events, queuedAtFail>>

\* ------------------------------------------------------------ command task
\* lib.go:279: semaphore.P(1)
CmdP(i) ==
    /\ taskPc[i] = "P"
    /\ semCanP(sem)
    /\ sem' = semP(sem)
    /\ taskPc' = [taskPc EXCEPT ![i] = "runLock"]
    /\ UNCHANGED <<optionVars, callers, file, runnerVars, err, signalVars, watcherPc, waiterPc, wg,
                   ctl, lock, procVars, waitErr, runRet, events, queuedAtFail>>

\* lib.go:324: c.Lock.Lock()
RunLock(i) ==
    /\ taskPc[i] = "runLock"
    /\ lock[i] = "free"
    /\ lock' = [lock EXCEPT ![i] = "run"]
    /\ taskPc' = [taskPc EXCEPT ![i] = "runCheck"]
    /\ UNCHANGED <<optionVars, callers, file, runnerVars, err, signalVars, watcherPc, waiterPc, wg,
                   sem, ctl, procVars, waitErr, runRet, events, queuedAtFail>>

\* lib.go:325-331: the re-entry guard, else mark started and emit cmd_started
RunCheck(i) ==
    /\ taskPc[i] = "runCheck"
    /\ IF runAlreadyHandled(ctl[i])
       THEN /\ lock' = [lock EXCEPT ![i] = "free"]
            /\ runRet' = [runRet EXCEPT ![i] = TRUE]
            /\ taskPc' = [taskPc EXCEPT ![i] = "afterRun"]
            /\ UNCHANGED <<ctl, events>>
       ELSE /\ ctl' = [ctl EXCEPT ![i].Started = TRUE]
            /\ events' = Append(events, newCmdStartedEvent(i))
            /\ taskPc' = [taskPc EXCEPT ![i] = "launch"]
            /\ UNCHANGED <<lock, runRet>>
    /\ UNCHANGED <<optionVars, callers, file, runnerVars, err, signalVars, watcherPc, waiterPc, wg,
                   sem, procVars, waitErr, queuedAtFail>>

\* Faulty variant: Launch not setting Finished when Cmd.Start failed.
Launch_FailNotFinished(i) ==
    /\ taskPc[i] = "launch"
    /\ \E ok \in BOOLEAN :
          IF ok
          THEN /\ proc' = [proc EXCEPT ![i] = "running"]
               /\ taskPc' = [taskPc EXCEPT ![i] = "wait"]
               /\ UNCHANGED <<ctl, events, runRet, queuedAtFail>>
          ELSE /\ events' = Append(events, newCmdFinishedEvent(i, errStart))
               /\ runRet' = [runRet EXCEPT ![i] = FALSE]
               /\ taskPc' = [taskPc EXCEPT ![i] = "afterRun"]
               /\ queuedAtFail' = queuedAtFail \cup QueuedNow
               /\ UNCHANGED <<ctl, proc>>
    /\ lock' = [lock EXCEPT ![i] = "free"]
    /\ UNCHANGED <<optionVars, callers, file, runnerVars, err, signalVars, watcherPc, waiterPc, wg,
                   sem, exitErr, waitErr>>

\* Faulty variant: Launch keeping the lock when Cmd.Start succeeded (the
\* Unlock of lib.go:340 missing).
Launch_KeepLock(i) ==
    /\ taskPc[i] = "launch"
    /\ \E ok \in BOOLEAN :
          IF ok
          THEN /\ proc' = [proc EXCEPT ![i] = "running"]
               /\ taskPc' = [taskPc EXCEPT ![i] = "wait"]
               /\ UNCHANGED <<ctl, events, runRet, queuedAtFail, lock>>
          ELSE /\ ctl' = [ctl EXCEPT ![i].Finished = TRUE]
               /\ events' = Append(events, newCmdFinishedEvent(i, errStart))
               /\ runRet' = [runRet EXCEPT ![i] = FALSE]
               /\ taskPc' = [taskPc EXCEPT ![i] = "afterRun"]
               /\ queuedAtFail' = queuedAtFail \cup QueuedNow
               /\ lock' = [lock EXCEPT ![i] = "free"]
               /\ UNCHANGED proc
    /\ UNCHANGED <<optionVars, callers, file, runnerVars, err, signalVars, watcherPc, waiterPc, wg,
                   sem, exitErr, waitErr>>

\* lib.go:332-340: c.Cmd.Start(), still under the lock
Launch(i) ==
    /\ taskPc[i] = "launch"
    /\ \E ok \in BOOLEAN :
          IF ok
          THEN /\ proc' = [proc EXCEPT ![i] = "running"]
               /\ taskPc' = [taskPc EXCEPT ![i] = "wait"]
               /\ UNCHANGED <<ctl, events, runRet, queuedAtFail>>
          ELSE /\ ctl' = [ctl EXCEPT ![i].Finished = TRUE]
               /\ events' = Append(events, newCmdFinishedEvent(i, errStart))
               /\ runRet' = [runRet EXCEPT ![i] = FALSE]
               /\ taskPc' = [taskPc EXCEPT ![i] = "afterRun"]
               /\ queuedAtFail' = queuedAtFail \cup QueuedNow
               /\ UNCHANGED proc
    /\ lock' = [lock EXCEPT ![i] = "free"]
    /\ UNCHANGED <<optionVars, callers, file, runnerVars, err, signalVars, watcherPc, waiterPc, wg,
                   sem, exitErr, waitErr>>

\* lib.go:341-345: c.Cmd.Wait() returns once the process has ended
Wait(i) ==
    /\ taskPc[i] = "wait"
    /\ proc[i] = "exited"
    /\ proc' = [proc EXCEPT ![i] = "reaped"]
    /\ waitErr' = [waitErr EXCEPT ![i] = exitErr[i]]
    /\ taskPc' = [taskPc EXCEPT ![i] = "relock"]
    /\ UNCHANGED <<optionVars, callers, file, runnerVars, err, signalVars, watcherPc, waiterPc, wg,
                   sem, ctl, lock, exitErr, runRet, events, queuedAtFail>>

\* lib.go:346: c.Lock.Lock()
Relock(i) ==
    /\ taskPc[i] = "relock"
    /\ lock[i] = "free"
    /\ lock' = [lock EXCEPT ![i] = "run"]
    /\ taskPc' = [taskPc EXCEPT ![i] = "finish"]
    /\ UNCHANGED <<optionVars, callers, file, runnerVars, err, signalVars, watcherPc, waiterPc, wg,
                   sem, ctl, procVars, waitErr, runRet, events, queuedAtFail>>

\* Faulty variant: Finish returning the exit status of the process also
\* when Kill has already marked the controller finished.
Finish_ReportsKilled(i) ==
    /\ taskPc[i] = "finish"
    /\ IF finishAlreadyHandled(ctl[i])
       THEN /\ runRet' = [runRet EXCEPT ![i] = ~waitErr[i]]
            /\ UNCHANGED <<ctl, events, queuedAtFail>>
       ELSE /\ ctl' = [ctl EXCEPT ![i].Finished = TRUE]
            /\ events' = Append(events,
                  newCmdFinishedEvent(i, IF waitErr[i] THEN errExit ELSE errNil))
            /\ runRet' = [runRet EXCEPT ![i] = ~waitErr[i]]
            /\ queuedAtFail' = IF waitErr[i] THEN queuedAtFail \cup QueuedNow
                                ELSE queuedAtFail
    /\ lock' = [lock EXCEPT ![i] = "free"]
    /\ taskPc' = [taskPc EXCEPT ![i] = "afterRun"]
    /\ UNCHANGED <<optionVars, callers, file, runnerVars, err, signalVars, watcherPc, waiterPc, wg,
                   sem, procVars, waitErr>>

\* lib.go:347-353
Finish(i) ==
    /\ taskPc[i] = "finish"
    /\ IF finishAlreadyHandled(ctl[i])
       THEN /\ runRet' = [runRet EXCEPT ![i] = TRUE]
            /\ UNCHANGED <<ctl, events, queuedAtFail>>
       ELSE /\ ctl' = [ctl EXCEPT ![i].Finished = TRUE]
            /\ events' = Append(events,
                  newCmdFinishedEvent(i, IF waitErr[i] THEN errExit ELSE errNil))
            /\ runRet' = [runRet EXCEPT ![i] = ~waitErr[i]]
            /\ queuedAtFail' = IF waitErr[i] THEN queuedAtFail \cup QueuedNow
                                ELSE queuedAtFail
    /\ lock' = [lock EXCEPT ![i] = "free"]
    /\ taskPc' = [taskPc EXCEPT ![i] = "afterRun"]
    /\ UNCHANGED <<optionVars, callers, file, runnerVars, err, signalVars, watcherPc, waiterPc, wg,
                   sem, procVars, waitErr>>

\* Faulty variant: AfterRun writing err only while it is still nil.
AfterRun_FirstWriterWins(i) ==
    /\ taskPc[i] = "afterRun"
    /\ IF ~runRet[i]
       THEN /\ err' = IF err = errNil THEN errCmdFailed ELSE err
            /\ taskPc' = [taskPc EXCEPT ![i] = IF fastFail THEN "sendDone" ELSE "wgDone"]
       ELSE /\ taskPc' = [taskPc EXCEPT ![i] = "wgDone"]
            /\ UNCHANGED err
    /\ UNCHANGED <<optionVars, callers, file, runnerVars, signalVars, watcherPc, waiterPc, wg, sem,
                   ctl, lock, procVars, waitErr, runRet, events, queuedAtFail>>

\* Faulty variant: AfterRun without the send on doneC under FastFail.
AfterRun_NoFastFailSend(i) ==
    /\ taskPc[i] = "afterRun"
    /\ IF ~runRet[i]
       THEN err' = errCmdFailed
       ELSE UNCHANGED err
    /\ taskPc' = [taskPc EXCEPT ![i] = "wgDone"]
    /\ UNCHANGED <<optionVars, callers, file, runnerVars, signalVars, watcherPc, waiterPc, wg, sem,
                   ctl, lock, procVars, waitErr, runRet, events, queuedAtFail>>

\* Faulty variant: AfterRun with the write of err moved inside
\* "if r.options.FastFail".
AfterRun_ErrOnlyOnFastFail(i) ==
    /\ taskPc[i] = "afterRun"
    /\ IF ~runRet[i] /\ fastFail
       THEN /\ err' = errCmdFailed
            /\ taskPc' = [taskPc EXCEPT ![i] = "sendDone"]
       ELSE /\ taskPc' = [taskPc EXCEPT ![i] = "wgDone"]
            /\ UNCHANGED err
    /\ UNCHANGED <<optionVars, callers, file, runnerVars, signalVars, watcherPc, waiterPc, wg, sem,
                   ctl, lock, procVars, waitErr, runRet, events, queuedAtFail>>

\* lib.go:282-286: if !cmdController.Run() { err = errCmdFailed; if FastFail ...
AfterRun(i) ==
    /\ taskPc[i] = "afterRun"
    /\ IF ~runRet[i]
       THEN /\ err' = errCmdFailed
            /\ taskPc' = [taskPc EXCEPT ![i] = IF fastFail THEN "sendDone" ELSE "wgDone"]
       ELSE /\ taskPc' = [taskPc EXCEPT ![i] = "wgDone"]
            /\ UNCHANGED err
    /\ UNCHANGED <<optionVars, callers, file, runnerVars, signalVars, watcherPc, waiterPc, wg, sem,
                   ctl, lock, procVars, waitErr, runRet, events, queuedAtFail>>

\* lib.go:287 with lib.go:299
CmdSendDone(i) ==
    /\ taskPc[i] = "sendDone"
    /\ mainPc = "recv"
    /\ taskPc' = [taskPc EXCEPT ![i] = "wgDone"]
    /\ mainPc' = "kill"
    /\ UNCHANGED <<optionVars, callers, file, spawnIdx, killIdx, retVal, err, signalVars, watcherPc,
                   waiterPc, wg, sem, ctl, lock, procVars, waitErr, runRet, events, queuedAtFail>>

\* Faulty variant: the command task ends without waitGroup.Done().
CmdWgDone_NoDone(i) ==
    /\ taskPc[i] = "wgDone"
    /\ taskPc' = [taskPc EXCEPT ![i] = "V"]
    /\ UNCHANGED <<optionVars, callers, file, runnerVars, err, signalVars, watcherPc, waiterPc, sem,
                   ctl, lock, procVars, waitErr, runRet, events, queuedAtFail, wg>>

\* lib.go:281: defer waitGroup.Done()
CmdWgDone(i) ==
    /\ taskPc[i] = "wgDone"
    /\ wg' = wg - 1
    /\ taskPc' = [taskPc EXCEPT ![i] = "V"]
    /\ UNCHANGED <<optionVars, callers, file, runnerVars, err, signalVars, watcherPc, waiterPc, sem,
                   ctl, lock, procVars, waitErr, runRet, events, queuedAtFail>>

\* lib.go:280: defer semaphore.V(1)
CmdV(i) ==
    /\ taskPc[i] = "V"
    /\ semCanV(sem)
    /\ sem' = semV(sem)
    /\ taskPc' = [taskPc EXCEPT ![i] = "done"]
    /\ UNCHANGED <<optionVars, callers, file, runnerVars, err, signalVars, watcherPc, waiterPc, wg,
                   ctl, lock, procVars, waitErr, runRet, events, queuedAtFail>>

\* --------------------------------------------------------------- main task
\* lib.go:273-274
MainEmitStarted ==
    /\ mainPc = "emitStarted"
    /\ events' = Append(events, newStartedEvent)
    /\ mainPc' = "spawn"
    /\ UNCHANGED <<optionVars, callers, file, spawnIdx, killIdx, retVal, err, signalVars, watcherPc,
                   waiterPc, wg, sem, ctl, lock, procVars, taskVars, queuedAtFail>>

\* lib.go:275-291: waitGroup.Add(1); go func() {...}()
MainSpawn ==
    /\ mainPc = "spawn"
    /\ spawnIdx <= nCmds
    /\ wg' = wg + 1
    /\ taskPc' = [taskPc EXCEPT ![spawnIdx] = "P"]
    /\ spawnIdx' = spawnIdx + 1
    /\ UNCHANGED <<optionVars, callers, file, mainPc, killIdx, retVal, err, signalVars, watcherPc,
                   waiterPc, sem, ctl, lock, procVars, waitErr, runRet, events, queuedAtFail>>

\* lib.go:292-298: go func() { waitGroup.Wait(); doneC <- struct{}{} }()
MainSpawnWaiter ==
    /\ mainPc = "spawn"
    /\ spawnIdx > nCmds
    /\ waiterPc' = "wait"
    /\ mainPc' = "recv"
    /\ UNCHANGED <<optionVars, callers, file, spawnIdx, killIdx, retVal, err, signalVars, watcherPc,
                   wg, sem, ctl, lock, procVars, taskVars, events, queuedAtFail>>

\* lib.go:300-301 with lib.go:357: c.Lock.Lock() of the next controller
KillLock ==
    /\ mainPc = "kill"
    /\ killIdx <= nCmds
    /\ lock[killIdx] = "free"
    /\ lock' = [lock EXCEPT ![killIdx] = "kill"]
    /\ mainPc' = "killBody"
    /\ UNCHANGED <<optionVars, callers, file, spawnIdx, killIdx, retVal, err, signalVars, watcherPc,
                   waiterPc, wg, sem, ctl, procVars, taskVars, events, queuedAtFail>>

\* Faulty variant: Kill returning without its deferred Unlock.
KillBody_KeepLock ==
    /\ mainPc = "killBody"
    /\ LET k == killEffect(killIdx, ctl[killIdx], proc[killIdx]) IN
          /\ ctl' = [ctl EXCEPT ![killIdx] = k.c]
          /\ proc' = [proc EXCEPT ![killIdx] = k.p]
          /\ exitErr' = [exitErr EXCEPT ![killIdx] =
                            IF k.killed /\ proc[killIdx] = "running" THEN TRUE ELSE @]
          /\ events' = events \o k.ev
    /\ killIdx' = killIdx + 1
    /\ mainPc' = "kill"
    /\ UNCHANGED <<optionVars, callers, file, spawnIdx, retVal, err, signalVars, watcherPc, waiterPc,
                   wg, sem, taskVars, queuedAtFail, lock>>

\* Faulty variant: Kill reporting a failed Process.Kill through the shared
\* outcome as well.
KillBody_WritesErr ==
    /\ mainPc = "killBody"
    /\ LET k == killEffect(killIdx, ctl[killIdx], proc[killIdx]) IN
          /\ ctl' = [ctl EXCEPT ![killIdx] = k.c]
          /\ proc' = [proc EXCEPT ![killIdx] = k.p]
          /\ exitErr' = [exitErr EXCEPT ![killIdx] =
                            IF k.killed /\ proc[killIdx] = "running" THEN TRUE ELSE @]
          /\ events' = events \o k.ev
          /\ err' = IF k.killed /\ processKillErr(proc[killIdx]) # errNil
                    THEN errCmdFailed ELSE err
    /\ lock' = [lock EXCEPT ![killIdx] = "free"]
    /\ killIdx' = killIdx + 1
    /\ mainPc' = "kill"
    /\ UNCHANGED <<optionVars, callers, file, spawnIdx, retVal, signalVars, watcherPc, waiterPc,
                   wg, sem, taskVars, queuedAtFail>>

\* lib.go:358-376: the body of Kill and its deferred Unlock
KillBody ==
    /\ mainPc = "killBody"
    /\ LET k == killEffect(killIdx, ctl[killIdx], proc[killIdx]) IN
          /\ ctl' = [ctl EXCEPT ![killIdx] = k.c]
          /\ proc' = [proc EXCEPT ![killIdx] = k.p]
          /\ exitErr' = [exitErr EXCEPT ![killIdx] =
                            IF k.killed /\ proc[killIdx] = "running" THEN TRUE ELSE @]
          /\ events' = events \o k.ev
    /\ lock' = [lock EXCEPT ![killIdx] = "free"]
    /\ killIdx' = killIdx + 1
    /\ mainPc' = "kill"
    /\ UNCHANGED <<optionVars, callers, file, spawnIdx, retVal, err, signalVars, watcherPc, waiterPc,
                   wg, sem, taskVars, queuedAtFail>>

\* lib.go:303-304: the finished event carries the value of err read here
MainEmitFinished ==
    /\ mainPc = "kill"
    /\ killIdx > nCmds
    /\ events' = Append(events, newFinishedEvent(err))
    /\ mainPc' = "return"
    /\ UNCHANGED <<optionVars, callers, file, spawnIdx, killIdx, retVal, err, signalVars, watcherPc,
                   waiterPc, wg, sem, ctl, lock, procVars, taskVars, queuedAtFail>>

\* lib.go:305: return err (a second read of err)
MainReturn ==
    /\ mainPc = "return"
    /\ retVal' = err
    /\ mainPc' = "returned"
    /\ UNCHANGED <<optionVars, callers, file, spawnIdx, killIdx, err, signalVars, watcherPc, waiterPc,
                   wg, sem, ctl, lock, procVars, taskVars, events, queuedAtFail>>

\* -------------------------------------------------------------------- Next
Next ==
    \/ Interrupt
    \/ WatcherRecv
    \/ WatcherSetErr
    \/ WatcherSendDone
    \/ WaiterWait
    \/ WaiterSendDone
    \/ MainEmitStarted
    \/ MainSpawn
    \/ MainSpawnWaiter
    \/ KillLock
    \/ KillBody
    \/ MainEmitFinished
    \/ MainReturn
    \/ \E i \in Cmds(nCmds) : ProcExit(i)
    \/ \E i \in Cmds(nCmds) : CmdP(i)
    \/ \E i \in Cmds(nCmds) : RunLock(i)
    \/ \E i \in Cmds(nCmds) : RunCheck(i)
    \/ \E i \in Cmds(nCmds) : Launch(i)
    \/ \E i \in Cmds(nCmds) : Wait(i)
    \/ \E i \in Cmds(nCmds) : Relock(i)
    \/ \E i \in Cmds(nCmds) : Finish(i)
    \/ \E i \in Cmds(nCmds) : AfterRun(i)
    \/ \E i \in Cmds(nCmds) : CmdSendDone(i)
    \/ \E i \in Cmds(nCmds) : CmdWgDone(i)
    \/ \E i \in Cmds(nCmds) : CmdV(i)

Spec == Init /\ [][Next]_vars
NoLimitSpec == NoLimitInit /\ [][Next]_vars

\* ---------------------------------------------------------------- fairness
\* The Go scheduler runs every goroutine that can take a step: FairSpec.
\* Nothing is assumed about the environment: a launched process may run
\* forever and an interrupt may never come.  ExitFairSpec adds that every
\* launched process exits in the end.
MainNext ==
    \/ MainEmitStarted
    \/ MainSpawn
    \/ MainSpawnWaiter
    \/ KillLock
    \/ KillBody
    \/ MainEmitFinished
    \/ MainReturn
WatcherNext == WatcherRecv \/ WatcherSetErr \/ WatcherSendDone
WaiterNext == WaiterWait \/ WaiterSendDone
CmdTaskNext(i) ==
    /\ i \in Cmds(nCmds)
    /\ \/ CmdP(i)
       \/ RunLock(i)
       \/ RunCheck(i)
       \/ Launch(i)
       \/ Wait(i)
       \/ Relock(i)
       \/ Finish(i)
       \/ AfterRun(i)
       \/ CmdSendDone(i)
       \/ CmdWgDone(i)
       \/ CmdV(i)
ProcExitNext(i) == i \in Cmds(nCmds) /\ ProcExit(i)

SchedulerFairness ==
    /\ WF_vars(MainNext)
    /\ WF_vars(WatcherNext)
    /\ WF_vars(WaiterNext)
    /\ \A i \in 1..MaxCmds : WF_vars(CmdTaskNext(i))
ProcessesExit == \A i \in 1..MaxCmds : WF_vars(ProcExitNext(i))

FairSpec == Init /\ [][Next]_vars /\ SchedulerFairness
ExitFairSpec == FairSpec /\ ProcessesExit

\* ------------------------------------------ one controller exercised on its own
\* cmdController.Run and cmdController.Kill are methods any goroutine may
\* call, any number of times.  ControllerSpec leaves runner.Run out and lets
\* MaxCallers goroutines make up to MaxCalls calls each, of Run() or Kill()
\* in any order and interleaving, on one controller.  callers.of[t] is
\* caller t: its position inside the call, the method and the controller it
\* is calling or called last, the calls made, the local err of its Run() and
\* what its last Run() returned.  callers.starts counts the calls of Cmd.Start.
runnerState == <<optionVars, runnerVars, err, signalVars, watcherPc, waiterPc, wg, sem,
                 taskVars, queuedAtFail, file>>

newCaller ==
    [pc |-> "idle", op |-> "none", on |-> 0, calls |-> 0, waitErr |-> FALSE, ret |-> TRUE]

ControllerInit ==
    /\ fastFail = FALSE
    /\ maxConcurrent = 0
    /\ nCmds = 1
    /\ mainPc = "none"
    /\ spawnIdx = 1
    /\ killIdx = 1
    /\ err = errNil
    /\ retVal = errNil
    /\ signalC = 0
    /\ nSignals = 0
    /\ watcherPc = "none"
    /\ waiterPc = "none"
    /\ wg = 0
    /\ sem = newSemaphore(maxConcurrent)
    /\ ctl = [i \in Cmds(nCmds) |-> newCmdController]
    /\ lock = [i \in Cmds(nCmds) |-> "free"]
    /\ proc = [i \in Cmds(nCmds) |-> "nil"]
    /\ exitErr = [i \in Cmds(nCmds) |-> FALSE]
    /\ taskPc = [i \in Cmds(nCmds) |-> "none"]
    /\ waitErr = [i \in Cmds(nCmds) |-> FALSE]
    /\ runRet = [i \in Cmds(nCmds) |-> TRUE]
    /\ events = <<>>
    /\ sigMidFlight = FALSE
    /\ queuedAtFail = {}
    /\ callers = [of |-> [t \in Callers |-> newCaller], starts |-> 0]
    /\ file = <<>>

\* Caller t calls Run() on controller i; lib.go:324: c.Lock.Lock()
CallerRunLock(t, i) ==
    /\ callers.of[t].pc = "idle"
    /\ callers.of[t].calls < MaxCalls
    /\ lock[i] = "free"
    /\ lock' = [lock EXCEPT ![i] = "run"]
    /\ callers' = [callers EXCEPT !.of[t].pc = "runCheck",
                                  !.of[t].op = "run",
                                  !.of[t].on = i,
                                  !.of[t].calls = @ + 1]
    /\ UNCHANGED <<runnerState, ctl, procVars, events>>

\* Faulty variant: Run() unlocking right after cmd_started, before
\* Cmd.Start.
CallerRunCheck_UnlockBeforeStart(t) ==
    /\ callers.of[t].pc = "runCheck"
    /\ LET i == callers.of[t].on IN
          IF runAlreadyHandled(ctl[i])
          THEN /\ lock' = [lock EXCEPT ![i] = "free"]
               /\ callers' = [callers EXCEPT !.of[t].pc = "idle", !.of[t].ret = TRUE]
               /\ UNCHANGED <<ctl, events>>
          ELSE /\ ctl' = [ctl EXCEPT ![i].Started = TRUE]
               /\ events' = Append(events, newCmdStartedEvent(i))
               /\ callers' = [callers EXCEPT !.of[t].pc = "launch"]
               /\ lock' = [lock EXCEPT ![i] = "free"]
    /\ UNCHANGED <<runnerState, procVars>>

\* lib.go:325-331: the re-entry guard, else mark started and emit cmd_started
CallerRunCheck(t) ==
    /\ callers.of[t].pc = "runCheck"
    /\ LET i == callers.of[t].on IN
          IF runAlreadyHandled(ctl[i])
          THEN /\ lock' = [lock EXCEPT ![i] = "free"]
               /\ callers' = [callers EXCEPT !.of[t].pc = "idle", !.of[t].ret = TRUE]
               /\ UNCHANGED <<ctl, events>>
          ELSE /\ ctl' = [ctl EXCEPT ![i].Started = TRUE]
               /\ events' = Append(events, newCmdStartedEvent(i))
               /\ callers' = [callers EXCEPT !.of[t].pc = "launch"]
               /\ UNCHANGED lock
    /\ UNCHANGED <<runnerState, procVars>>

\* lib.go:332-340: c.Cmd.Start(), still under the lock
CallerLaunch(t) ==
    /\ callers.of[t].pc = "launch"
    /\ LET i == callers.of[t].on IN
          /\ \E ok \in BOOLEAN :
                IF ok
                THEN /\ proc' = [proc EXCEPT ![i] = "running"]
                     /\ callers' = [callers EXCEPT !.of[t].pc = "wait",
                                                   !.starts = @ + 1]
                     /\ UNCHANGED <<ctl, events>>
                ELSE /\ ctl' = [ctl EXCEPT ![i].Finished = TRUE]
                     /\ events' = Append(events, newCmdFinishedEvent(i, errStart))
                     /\ callers' = [callers EXCEPT !.of[t].pc = "idle",
                                                   !.of[t].ret = FALSE,
                                                   !.starts = @ + 1]
                     /\ UNCHANGED proc
          /\ lock' = [lock EXCEPT ![i] = "free"]
    /\ UNCHANGED <<runnerState, exitErr>>

\* lib.go:341-345: c.Cmd.Wait() returns once the process has ended
CallerWait(t) ==
    /\ callers.of[t].pc = "wait"
    /\ LET i == callers.of[t].on IN
          /\ proc[i] = "exited"
          /\ proc' = [proc EXCEPT ![i] = "reaped"]
          /\ callers' = [callers EXCEPT !.of[t].pc = "relock",
                                        !.of[t].waitErr = exitErr[i]]
    /\ UNCHANGED <<runnerState, ctl, lock, exitErr, events>>

\* lib.go:346: c.Lock.Lock()
CallerRelock(t) ==
    /\ callers.of[t].pc = "relock"
    /\ LET i == callers.of[t].on IN
          /\ lock[i] = "free"
          /\ lock' = [lock EXCEPT ![i] = "run"]
    /\ callers' = [callers EXCEPT !.of[t].pc = "finish"]
    /\ UNCHANGED <<runnerState, ctl, procVars, events>>

\* lib.go:347-353
CallerFinish(t) ==
    /\ callers.of[t].pc = "finish"
    /\ LET i == callers.of[t].on
           e == callers.of[t].waitErr IN
          /\ IF finishAlreadyHandled(ctl[i])
             THEN /\ callers' = [callers EXCEPT !.of[t].pc = "idle", !.of[t].ret = TRUE]
                  /\ UNCHANGED <<ctl, events>>
             ELSE /\ ctl' = [ctl EXCEPT ![i].Finished = TRUE]
                  /\ events' = Append(events,
                        newCmdFinishedEvent(i, IF e THEN errExit ELSE errNil))
                  /\ callers' = [callers EXCEPT !.of[t].pc = "idle", !.of[t].ret = ~e]
          /\ lock' = [lock EXCEPT ![i] = "free"]
    /\ UNCHANGED <<runnerState, procVars>>

\* Caller t calls Kill() on controller i; lib.go:357: c.Lock.Lock()
CallerKillLock(t, i) ==
    /\ callers.of[t].pc = "idle"
    /\ callers.of[t].calls < MaxCalls
    /\ lock[i] = "free"
    /\ lock' = [lock EXCEPT ![i] = "kill"]
    /\ callers' = [callers EXCEPT !.of[t].pc = "killBody",
                                  !.of[t].op = "kill",
                                  !.of[t].on = i,
                                  !.of[t].calls = @ + 1]
    /\ UNCHANGED <<runnerState, ctl, procVars, events>>

\* lib.go:358-376: the body of Kill and its deferred Unlock
CallerKillBody(t) ==
    /\ callers.of[t].pc = "killBody"
    /\ LET i == callers.of[t].on
           k == killEffect(i, ctl[i], proc[i]) IN
          /\ ctl' = [ctl EXCEPT ![i] = k.c]
          /\ proc' = [proc EXCEPT ![i] = k.p]
          /\ exitErr' = [exitErr EXCEPT ![i] =
                            IF k.killed /\ proc[i] = "running" THEN TRUE ELSE @]
          /\ events' = events \o k.ev
          /\ lock' = [lock EXCEPT ![i] = "free"]
    /\ callers' = [callers EXCEPT !.of[t].pc = "idle"]
    /\ UNCHANGED runnerState

ControllerNext ==
    \/ \E i \in Cmds(nCmds) : ProcExit(i)
    \/ \E t \in Callers : \E i \in Cmds(nCmds) : CallerRunLock(t, i)
    \/ \E t \in Callers : CallerRunCheck(t)
    \/ \E t \in Callers : CallerLaunch(t)
    \/ \E t \in Callers : CallerWait(t)
    \/ \E t \in Callers : CallerRelock(t)
    \/ \E t \in Callers : CallerFinish(t)
    \/ \E t \in Callers : \E i \in Cmds(nCmds) : CallerKillLock(t, i)
    \/ \E t \in Callers : CallerKillBody(t)

ControllerSpec == ControllerInit /\ [][ControllerNext]_vars

\* The step in which caller t's call returns, and the kind of call it was.
CallReturns(t) == callers.of[t].pc # "idle" /\ callers'.of[t].pc = "idle"
InRun(t) == callers.of[t].pc \in {"runCheck", "launch", "wait", "relock", "finish"}
InKill(t) == callers.of[t].pc = "killBody"

\* ------------------------------------------------------------ update-license
\* README.md:197-252: updateData, updateLines, addToLines.  A file is the
\* sequence of its lines, strings.Split(data, "\n"), never empty.  A line is
\* one of the classes of text the code tells apart by strings.HasPrefix:
\*   "licenseHead"    the first line of the license text ("// Copyright ...")
\*   "copyright"      another line that starts with "// Copyright"
\*   "codeGenerated"  a line that starts with "// Code generated by"
\*   "atGenerated"    a line that starts with "// @generated"
\*   "comment"        another line that starts with "//"
\*   "code"           a non-empty line that does not start with "//"
\*   "blank"          the empty line
\* and "LICENSE" is the one slice element holding the whole license text,
\* newlines included, as updateLines returns it.
copyrightLineLimit == 5
LineKinds ==
    {"licenseHead", "copyright", "codeGenerated", "atGenerated", "comment", "code", "blank"}

\* The license text line by line: fullLicense's result starts with the
\* copyright line and every other line of it is a "//" comment.
licenseLines == <<"licenseHead", "comment", "comment">>

\* strings.HasPrefix(line, headerPrefix)
hasHeaderPrefix(line) == line \in {"licenseHead", "copyright", "LICENSE"}
\* README.md:245-252
lineContainsSkipPrefix(line) == line \in {"codeGenerated", "atGenerated"}
\* strings.HasPrefix(line, "//")
hasCommentPrefix(line) ==
    line \in {"licenseHead", "copyright", "codeGenerated", "atGenerated", "comment", "LICENSE"}

\* README.md:235-237: the inner loop of addToLines from position k (counted
\* from 1); 0 stands for the index-out-of-range panic of lines[i] when the
\* comments run to the end of the slice.
RECURSIVE skipComments(_, _)
skipComments(lines, k) ==
    IF k > Len(lines) THEN 0
    ELSE IF hasCommentPrefix(lines[k]) THEN skipComments(lines, k + 1)
    ELSE k

\* README.md:232-238: the outer loop; the position (from 1) of the first
\* line that is not skipped, or 0 for the panic.
RECURSIVE skipGenerated(_, _)
skipGenerated(lines, k) ==
    IF k <= Len(lines) /\ lineContainsSkipPrefix(lines[k])
    THEN LET j == skipComments(lines, k + 1) IN
            IF j = 0 THEN 0 ELSE skipGenerated(lines, j)
    ELSE k

\* README.md:230-243
addToLines(lines) ==
    LET k == skipGenerated(lines, 1) IN
       IF k = 0 THEN [panic |-> TRUE, lines |-> lines]
       ELSE IF k = 1 THEN [panic |-> FALSE, lines |-> <<"LICENSE", "blank">> \o lines]
       ELSE [panic |-> FALSE,
             lines |-> SubSeq(lines, 1, k - 1) \o <<"blank", "LICENSE">>
                          \o SubSeq(lines, k, Len(lines))]

\* README.md:214-227: the first line among the first copyrightLineLimit that
\* starts with headerPrefix is replaced by the first line of the license;
\* without one, addToLines.
updateLines(lines) ==
    LET limit == IF Len(lines) < copyrightLineLimit THEN Len(lines) ELSE copyrightLineLimit
        hits == {i \in 1..limit : hasHeaderPrefix(lines[i])}
    IN IF hits # {}
       THEN LET first == CHOOSE i \in hits : \A j \in hits : i <= j IN
               [panic |-> FALSE, lines |-> [lines EXCEPT ![first] = licenseLines[1]]]
       ELSE addToLines(lines)

\* strings.Split(strings.Join(lines, "\n"), "\n"): the element that holds
\* the license text comes back as the lines of that text.
RECURSIVE joinSplit(_)
joinSplit(lines) ==
    IF lines = <<>> THEN <<>>
    ELSE (IF Head(lines) = "LICENSE" THEN licenseLines ELSE <<Head(lines)>>)
            \o joinSplit(Tail(lines))

\* README.md:197-211 with 175-192: one run of update-license on the file.  A
\* panic ends the program before WriteFile.
updateData(lines) ==
    LET r == updateLines(lines) IN
       IF r.panic THEN [panic |-> TRUE, lines |-> lines]
       ELSE [panic |-> FALSE, lines |-> joinSplit(r.lines)]

Files == UNION {[1..n -> LineKinds] : n \in 1..MaxLines}

LicenseInit ==
    /\ fastFail = FALSE
    /\ maxConcurrent = 0
    /\ nCmds = 0
    /\ mainPc = "none"
    /\ spawnIdx = 1
    /\ killIdx = 1
    /\ err = errNil
    /\ retVal = errNil
    /\ signalC = 0
    /\ nSignals = 0
    /\ watcherPc = "none"
    /\ waiterPc = "none"
    /\ wg = 0
    /\ sem = newSemaphore(maxConcurrent)
    /\ ctl = <<>>
    /\ lock = <<>>
    /\ proc = <<>>
    /\ exitErr = <<>>
    /\ taskPc = <<>>
    /\ waitErr = <<>>
    /\ runRet = <<>>
    /\ events = <<>>
    /\ sigMidFlight = FALSE
    /\ queuedAtFail = {}
    /\ callers = <<>>
    /\ \E f \in Files :
          file = [lines |-> f, before |-> f, runs |-> 0, panicked |-> FALSE]

\* README.md:169-195: updateFile, run once more on the same file.
UpdateFile ==
    /\ file.runs < MaxRuns
    /\ ~file.panicked
    /\ LET r == updateData(file.lines) IN
          file' = [lines |-> r.lines, before |-> file.lines,
                   runs |-> file.runs + 1, panicked |-> r.panic]
    /\ UNCHANGED <<optionVars, runnerVars, err, signalVars, watcherPc, waiterPc, wg, sem,
                   taskVars, queuedAtFail, callers, ctl, lock, procVars, events>>

LicenseNext == UpdateFile

LicenseSpec == LicenseInit /\ [][LicenseNext]_vars

\* ----------------------------------------------------- views of the event log
EventIdx(t, c) == {k \in DOMAIN events : events[k].type = t /\ events[k].cmd = c}
NRunStarted == Cardinality(EventIdx(EventTypeStarted, 0))
NRunFinished == Cardinality(EventIdx(EventTypeFinished, 0))
NCmdStarted(i) == Cardinality(EventIdx(EventTypeCmdStarted, i))
NCmdFinished(i) == Cardinality(EventIdx(EventTypeCmdFinished, i))
\* Commands with an emitted cmd_started and no cmd_finished yet.
InFlight == {i \in Cmds(nCmds) : NCmdStarted(i) > 0 /\ NCmdFinished(i) = 0}
\* Command tasks between the return of P(1) and the return of V(1).
HoldingPermit == {i \in Cmds(nCmds) : taskPc[i] \notin {"unspawned", "P", "done"}}
Returned == mainPc = "returned"

\* ------------------------------------------------------------------ claims

\* C1: one invocation of Run emits exactly one run-started and exactly one
\* run-finished event: never more than one of either, the run-started one
\* as soon as Run has passed lib.go:274, and both once Run has returned, for
\* every command list (the empty one too) and every fastFail/maxConcurrent.
C1_OneRunStartedOneRunFinished ==
    /\ NRunStarted <= 1
    /\ NRunFinished <= 1
    /\ (mainPc # "emitStarted" => NRunStarted = 1)
    /\ (mainPc \in {"return", "returned"} => NRunFinished = 1)
    /\ (Returned => NRunStarted = 1 /\ NRunFinished = 1)

C1_Witness ==
    /\ Returned
    /\ nCmds = 0
    /\ NRunStarted = 1
    /\ NRunFinished = 1

\* C2: the run-started event is the first event of the log; the run-finished
\* event is in the log only when every controller has Finished = TRUE, and it
\* is the last event: no cmd_started or cmd_finished follows it, also not from
\* command tasks that are still alive after the kill sweep.
C2_RunStartedFirstRunFinishedLast ==
    /\ (events # <<>> => events[1].type = EventTypeStarted)
    /\ \A k \in DOMAIN events :
          events[k].type = EventTypeFinished =>
             /\ k = Len(events)
             /\ \A i \in Cmds(nCmds) : ctl[i].Finished

\* Run has returned and a command task that was still alive after the kill
\* sweep has run to its end without emitting anything.
C2_Witness ==
    /\ Returned
    /\ \E i \in Cmds(nCmds) :
          /\ taskPc[i] = "done"
          /\ NCmdStarted(i) = 0
    /\ \E j \in Cmds(nCmds) : NCmdFinished(j) = 1

\* C3: for each controller at most one cmd_started and at most one
\* cmd_finished is ever emitted, and cmd_started comes strictly before
\* cmd_finished in the log when both are there.
C3_AtMostOnePairInOrder ==
    \A i \in Cmds(nCmds) :
       /\ NCmdStarted(i) <= 1
       /\ NCmdFinished(i) <= 1
       /\ \A s \in EventIdx(EventTypeCmdStarted, i) :
             \A f \in EventIdx(EventTypeCmdFinished, i) : s < f

\* Kill has emitted the cmd_finished of a launched command whose Run has
\* come back from Wait and is about to take the lock again.
C3_Witness ==
    \E i \in Cmds(nCmds) :
       /\ taskPc[i] = "relock"
       /\ ctl[i].Finished
       /\ NCmdStarted(i) = 1
       /\ NCmdFinished(i) = 1

\* No cmd_finished without cmd_started, and no cmd_started without
\* cmd_finished once the run-finished event is out.
C4_PairComplete ==
    /\ \A i \in Cmds(nCmds) : NCmdFinished(i) > 0 => NCmdStarted(i) > 0
    /\ (mainPc \in {"return", "returned"} =>
           \A i \in Cmds(nCmds) : NCmdStarted(i) > 0 => NCmdFinished(i) > 0)

\* Each cmd_started is eventually followed by the command's cmd_finished.
C4_StartedLeadsToFinished ==
    \A i \in 1..MaxCmds :
       (i \in Cmds(nCmds) /\ NCmdStarted(i) > 0)
          ~> (i \in Cmds(nCmds) /\ NCmdFinished(i) > 0)

\* C4 as claimed: a command that emits no cmd_started emits no cmd_finished;
\* once the run-finished event is out (so when Run returns) every command
\* with a cmd_started has its cmd_finished; and each cmd_started is always
\* eventually followed by the cmd_finished of the same command.
C4_Original == [](C4_PairComplete) /\ C4_StartedLeadsToFinished

\* The process of command i is running from some point on for ever: it
\* never exits and is never killed.
C4_RunsForever(i) == <>[](i \in Cmds(nCmds) /\ proc[i] = "running")

\* C4 as amended: as claimed, except that a cmd_started is eventually
\* followed by the command's cmd_finished unless the command's process runs
\* for ever (it never exits and Run is never woken to kill it).
C4_Amended ==
    /\ [](C4_PairComplete)
    /\ \A i \in 1..MaxCmds :
          \/ C4_RunsForever(i)
          \/ (i \in Cmds(nCmds) /\ NCmdStarted(i) > 0)
                ~> (i \in Cmds(nCmds) /\ NCmdFinished(i) > 0)

\* Run has returned; one command was finished by Kill while its process was
\* running, another one never started and has no event at all.
C4_Witness ==
    /\ Returned
    /\ \E i, j \in Cmds(nCmds) :
          /\ NCmdStarted(i) = 1
          /\ NCmdFinished(i) = 1
          /\ taskPc[i] = "wait"
          /\ NCmdStarted(j) = 0
          /\ NCmdFinished(j) = 0

\* C5: with maxConcurrent = N > 0, at most N commands have an emitted
\* cmd_started without cmd_finished, and at most N permits are outstanding
\* (the tokens taken from the semaphore are those of the tasks between P and V).
C5_AtMostNInFlight ==
    maxConcurrent > 0 =>
       /\ Cardinality(InFlight) <= maxConcurrent
       /\ Cardinality(HoldingPermit) <= maxConcurrent
       /\ sem.cap - sem.tokens = Cardinality(HoldingPermit)

\* One command is in flight with the only permit and another waits in P.
C5_Witness ==
    /\ maxConcurrent = 1
    /\ sem.tokens = 0
    /\ \E i, j \in Cmds(nCmds) :
          /\ i # j
          /\ i \in InFlight
          /\ proc[i] = "running"
          /\ taskPc[j] = "P"

\* C6: with maxConcurrent <= 0 (0 or negative) neither P nor V ever blocks:
\* a command task at P or at V can always take its step, whatever the other
\* tasks do.  Checked under NoLimitSpec, where MaxConcurrentCmds is 0 or -1.
C6_UnlimitedNeverBlocks ==
    maxConcurrent <= 0 =>
       \A i \in Cmds(nCmds) :
          /\ (taskPc[i] = "P" => ENABLED CmdP(i))
          /\ (taskPc[i] = "V" => ENABLED CmdV(i))

\* maxConcurrent = 0 and every command has its process running at once.
C6_Witness ==
    /\ maxConcurrent < 0
    /\ nCmds >= 2
    /\ \A i \in Cmds(nCmds) : proc[i] = "running"

\* C9: when Run has returned, every controller, started or not, has
\* Finished = TRUE, so none is Started and not Finished.
C9_AllFinishedAtReturn ==
    Returned =>
       \A i \in Cmds(nCmds) :
          /\ ctl[i].Finished
          /\ ~(ctl[i].Started /\ ~ctl[i].Finished)

\* Run has returned after killing one running command and finishing
\* another one that never started.
C9_Witness ==
    /\ Returned
    /\ \E i, j \in Cmds(nCmds) :
          /\ NCmdStarted(i) = 0
          /\ ctl[i].Finished
          /\ NCmdStarted(j) = 1
          /\ taskPc[j] = "wait"
          /\ ctl[j].Finished

\* Command i was started, its process exited with status 0, Wait returned
\* and a cmd_finished without error is in the log.
OwnCleanExit(i) ==
    /\ NCmdStarted(i) = 1
    /\ proc[i] = "reaped"
    /\ ~exitErr[i]
    /\ \E k \in EventIdx(EventTypeCmdFinished, i) : events[k].err = errNil

\* C10: Run returns nil only if every command was started and its process
\* exited on its own without error (its cmd_finished carries no error); and
\* if any command's Run() returned false, Run returns a non-nil outcome:
\* errCmdFailed, or errInterrupted, the latter only when the signal goroutine
\* has written it.
C10_NilOnlyIfAllSucceeded ==
    Returned =>
       /\ (retVal = errNil => \A i \in Cmds(nCmds) : OwnCleanExit(i))
       /\ ((\E i \in Cmds(nCmds) : ~runRet[i]) =>
              /\ retVal \in {errCmdFailed, errInterrupted}
              /\ (retVal = errInterrupted => watcherPc \in {"send", "done"}))

\* Without fastFail one command failed, another one succeeded, and Run
\* returned errCmdFailed.
C10_Witness ==
    /\ Returned
    /\ ~fastFail
    /\ retVal = errCmdFailed
    /\ \E i, j \in Cmds(nCmds) :
          /\ ~runRet[i]
          /\ OwnCleanExit(j)

\* C7 as claimed: with fastFail, once some command has failed while other
\* commands were still queued, none of those queued commands ever emits
\* cmd_started and Run returns errCmdFailed.
C7_Original ==
    (fastFail /\ queuedAtFail # {}) =>
       /\ \A j \in queuedAtFail : NCmdStarted(j) = 0
       /\ (Returned => retVal = errCmdFailed)

\* With fastFail and a failure while commands were queued, Run returns
\* errCmdFailed, or errInterrupted if the signal goroutine wrote it.
C7_ReturnNonNil ==
    (fastFail /\ queuedAtFail # {} /\ Returned) =>
       /\ retVal \in {errCmdFailed, errInterrupted}
       /\ (retVal = errInterrupted => watcherPc \in {"send", "done"})

\* A step taken after Kill() has gone through the controller of a queued
\* command that has no cmd_started does not emit one.
C7_NoStartAfterKill ==
    \A j \in queuedAtFail :
       (fastFail /\ mainPc \in {"kill", "killBody", "return", "returned"}
          /\ killIdx > j /\ NCmdStarted(j) = 0)
       => NCmdStarted(j)' = 0

\* C7 as amended: with fastFail, once some command has failed while other
\* commands were still queued, Run returns errCmdFailed or, only if the
\* signal goroutine has written the outcome, errInterrupted, and never nil;
\* and a queued command that has emitted no cmd_started when the Runner's
\* Kill() has gone through its controller emits none afterwards.
C7_Amended == [](C7_ReturnNonNil) /\ [][C7_NoStartAfterKill]_vars

\* With fastFail one command failed while another was queued; the queued
\* one never emitted cmd_started, its task has ended, and Run returned
\* errCmdFailed.
C7_Witness ==
    /\ fastFail
    /\ Returned
    /\ retVal = errCmdFailed
    /\ \E j \in queuedAtFail :
          /\ NCmdStarted(j) = 0
          /\ taskPc[j] = "done"

\* C8 as claimed: an interruption delivered while commands are mid-flight
\* makes Run return errInterrupted.
C8_Original ==
    (Returned /\ sigMidFlight) => retVal = errInterrupted

\* C8 as amended: if an interruption is delivered while commands are
\* mid-flight and the signal goroutine's send on doneC is the one Run
\* receives, Run returns errInterrupted, or errCmdFailed when some command's
\* Run() returned false and its write of the outcome came later; never nil.
C8_Amended ==
    (Returned /\ sigMidFlight /\ watcherPc = "done") =>
       /\ retVal \in {errInterrupted, errCmdFailed}
       /\ (retVal = errCmdFailed => \E i \in Cmds(nCmds) : ~runRet[i])

\* An interrupt arrived mid-flight, woke Run, the running command was
\* killed and Run returned errInterrupted.
C8_Witness ==
    /\ Returned
    /\ sigMidFlight
    /\ watcherPc = "done"
    /\ retVal = errInterrupted
    /\ \E i \in Cmds(nCmds) :
          \E k \in EventIdx(EventTypeCmdFinished, i) : taskPc[i] = "wait"

\* Run has received from doneC (lib.go:299) and is in or past the kill loop.
Woken == mainPc \in {"kill", "killBody", "return", "returned"}

\* The error a command's own launch or exit produced, as its cmd_finished
\* carries it: the launch error when no process exists, else the exit status.
OwnResult(i) ==
    IF proc[i] = "nil" THEN errStart
    ELSE IF exitErr[i] THEN errExit ELSE errNil

\* Command i went through Run() to its end without being killed: started,
\* one cmd_started, one cmd_finished carrying its own result, no process
\* left running.
FinishedOnItsOwn(i) ==
    /\ ctl[i].Started
    /\ ctl[i].Finished
    /\ proc[i] \in {"nil", "reaped"}
    /\ NCmdStarted(i) = 1
    /\ NCmdFinished(i) = 1
    /\ \A k \in EventIdx(EventTypeCmdFinished, i) : events[k].err = OwnResult(i)
    /\ runRet[i] = (OwnResult(i) = errNil)

\* C11: with fastFail = false and no interrupt delivered, Run is woken only
\* after every command has finished on its own (cmd_started, then a
\* cmd_finished carrying its own launch or exit result, never one produced by
\* Kill), so the kill loop terminates no process; and Run returns errCmdFailed
\* if and only if some command's Run() failed, nil otherwise.
C11_NoSiblingTermination ==
    (~fastFail /\ nSignals = 0) =>
       /\ Woken => \A i \in Cmds(nCmds) : FinishedOnItsOwn(i)
       /\ \A i \in Cmds(nCmds) :
             \A k \in EventIdx(EventTypeCmdFinished, i) : events[k].err # errKill
       /\ Returned =>
             retVal = (IF \E i \in Cmds(nCmds) : ~runRet[i] THEN errCmdFailed ELSE errNil)

\* Without fastFail and without interrupt, one command failed to launch,
\* its sibling ran to its own clean exit afterwards, and Run returned
\* errCmdFailed.
C11_Witness ==
    /\ Returned
    /\ ~fastFail
    /\ nSignals = 0
    /\ retVal = errCmdFailed
    /\ \E i, j \in Cmds(nCmds) :
          /\ proc[i] = "nil"
          /\ ~runRet[i]
          /\ OwnCleanExit(j)
          /\ \E a \in EventIdx(EventTypeCmdFinished, i) :
                \E b \in EventIdx(EventTypeCmdStarted, j) : a < b

\* Some command's Run() has returned false.
SomeCmdFailed == \E i \in Cmds(nCmds) : ~runRet[i]

\* C12 as claimed: with fastFail, once a command has failed Run eventually
\* returns errCmdFailed.
C12_Original ==
    (fastFail /\ SomeCmdFailed) ~> (Returned /\ retVal = errCmdFailed)

C12_OutcomeAtReturn ==
    (fastFail /\ SomeCmdFailed /\ Returned) =>
       /\ retVal \in {errCmdFailed, errInterrupted}
       /\ (retVal = errInterrupted => watcherPc \in {"send", "done"})

\* C12 as amended: with fastFail, once a command has failed Run eventually
\* returns, whether or not the other commands' processes ever exit on their
\* own, and the value returned is errCmdFailed, or errInterrupted when the
\* signal goroutine has written the outcome.
C12_Amended ==
    /\ [](C12_OutcomeAtReturn)
    /\ ((fastFail /\ SomeCmdFailed) ~> Returned)

\* With fastFail one command failed, the Runner woke on its send (nobody
\* else sent), killed a sibling whose process was still running (that
\* sibling's Run() is still inside Cmd.Wait) and returned errCmdFailed.
C12_Witness ==
    /\ Returned
    /\ fastFail
    /\ retVal = errCmdFailed
    /\ watcherPc # "done"
    /\ waiterPc # "done"
    /\ \E i, j \in Cmds(nCmds) :
          /\ ~runRet[i]
          /\ taskPc[j] = "wait"
          /\ proc[j] = "exited"
          /\ ctl[j].Finished
          /\ NCmdFinished(j) = 1

C13_AllKilledAtReturn ==
    (Returned /\ nSignals > 0) =>
       \A i \in Cmds(nCmds) : ctl[i].Finished /\ proc[i] # "running"

\* C13: once an interrupt has been delivered during Run, Run eventually
\* returns under fair goroutine scheduling, with no assumption that any
\* process ever exits on its own; when it has returned every controller is
\* Finished and no process is left running.
C13_InterruptLeadsToReturn ==
    /\ (nSignals > 0 ~> Returned)
    /\ [](C13_AllKilledAtReturn)

\* Without fastFail, both commands were launched and neither process ever
\* exited on its own; the interrupt woke Run through the signal goroutine,
\* both were killed and Run returned.
C13_Witness ==
    /\ Returned
    /\ ~fastFail
    /\ nCmds = MaxCmds
    /\ watcherPc = "done"
    /\ \A i \in Cmds(nCmds) :
          /\ taskPc[i] = "wait"
          /\ ctl[i].Finished
          /\ NCmdFinished(i) = 1

\* C18 as claimed: the shared outcome is first-writer-wins: once err is
\* non-nil, no write changes it before Run has read it for its return.
C18_Original ==
    [][(err # errNil /\ mainPc # "returned") => err' = err]_vars

\* One step under the last-writer-wins rule: a non-nil outcome never becomes
\* nil again; the write of a failed command's task leaves errCmdFailed and
\* the write of the signal goroutine leaves errInterrupted, whatever was
\* there; and the return takes the value err has at that moment.
C18_LastWriterWins ==
    /\ err # errNil => err' # errNil
    /\ \A i \in Cmds(nCmds) :
          (taskPc[i] = "afterRun" /\ taskPc'[i] # "afterRun" /\ ~runRet[i])
             => err' = errCmdFailed
    /\ (watcherPc = "setErr" /\ watcherPc' = "send") => err' = errInterrupted
    /\ (mainPc = "return" /\ mainPc' = "returned") => retVal' = err

\* C18 as amended: the shared outcome is last-writer-wins: every cause
\* overwrites it unconditionally, a later write by another cause replaces
\* the earlier value, Run returns the value present when it reads err, and
\* the outcome never goes back to nil.
C18_Amended ==
    [][C18_LastWriterWins]_vars

\* One command: the signal goroutine wrote errInterrupted, the command's
\* task then overwrote it with errCmdFailed, and Run returned errCmdFailed.
C18_Witness ==
    /\ Returned
    /\ nCmds = 1
    /\ nSignals > 0
    /\ watcherPc \in {"send", "done"}
    /\ err = errCmdFailed
    /\ retVal = errCmdFailed

\* The step that runs the body of one Kill() of the loop at lib.go:300-302.
KillStep == mainPc = "killBody" /\ mainPc' = "kill"

\* The events that carry the error of a failed Process.Kill.
KillErrEvents == {k \in DOMAIN events : events[k].err = errKill}

C19_KillErrOnlyInCmdFinished ==
    /\ \A k \in KillErrEvents : events[k].type = EventTypeCmdFinished
    /\ (Returned /\ retVal = errCmdFailed) => SomeCmdFailed
    /\ (Returned /\ retVal = errInterrupted) => watcherPc \in {"send", "done"}

\* C19: no Kill() writes the shared outcome or the value returned, whether
\* its Process.Kill succeeds or fails; the error of a failed Process.Kill
\* appears only in a cmd_finished event, and the value Run returns is
\* errCmdFailed only when some command's Run() failed and errInterrupted
\* only when the signal goroutine wrote it, never because of a failed kill.
C19_KillNeverWritesOutcome ==
    /\ [][KillStep => (err' = err /\ retVal' = retVal)]_vars
    /\ [](C19_KillErrOnlyInCmdFinished)

\* A Process.Kill failed (its error is in a cmd_finished event), no
\* command's Run() failed, and Run returned the interrupt's outcome.
C19_Witness ==
    /\ Returned
    /\ KillErrEvents # {}
    /\ ~SomeCmdFailed
    /\ retVal = errInterrupted

\* C20 as claimed: Run() never holds the controller's lock while the process
\* is being launched (Cmd.Start) or while waiting for it to exit (Cmd.Wait).
C20_Original ==
    \A i \in Cmds(nCmds) :
       taskPc[i] \in {"launch", "wait"} => lock[i] # "run"

\* C20 as amended: Run() holds the controller's lock exactly in its two
\* locked sections, the first of which includes the launch attempt
\* (Cmd.Start); it never holds it while waiting for the process to exit, so
\* a Kill() that arrives while Run() is inside Cmd.Wait finds the lock free.
C20_Amended ==
    \A i \in Cmds(nCmds) :
       /\ lock[i] = "run" <=> taskPc[i] \in {"runCheck", "launch", "finish"}
       /\ taskPc[i] = "wait" => lock[i] # "run"
       /\ (mainPc = "kill" /\ killIdx = i /\ taskPc[i] = "wait") => lock[i] = "free"

\* Kill() has taken the lock of a controller whose Run() is inside Cmd.Wait
\* with the process still running.
C20_Witness ==
    /\ mainPc = "killBody"
    /\ killIdx \in Cmds(nCmds)
    /\ lock[killIdx] = "kill"
    /\ taskPc[killIdx] = "wait"
    /\ proc[killIdx] = "running"

\* The state of the controllers, their processes and the event log.
controllerVars == <<ctl, proc, exitErr, events>>

\* A Kill() that finds the controller Finished returns with nothing changed.
C14_KillOfFinishedIsNoOp ==
    \A t \in Callers :
       (InKill(t) /\ CallReturns(t) /\ ctl[callers.of[t].on].Finished)
          => UNCHANGED controllerVars

\* C14: Kill() is idempotent: whatever the controller's state and however
\* many calls of Kill() (and of Run()) are made on it, one after the other
\* or at the same time, at most one cmd_finished is emitted for it in total,
\* and a Kill() that finds it Finished changes neither the flags nor the
\* process and emits nothing.
C14_KillIdempotent ==
    /\ [](\A i \in Cmds(nCmds) : NCmdFinished(i) <= 1)
    /\ [][C14_KillOfFinishedIsNoOp]_vars

\* Two callers have each called Kill() on a controller whose process was
\* running (a third caller's Run() is still inside Cmd.Wait): one
\* cmd_finished in the log.
C14_Witness ==
    \E t, u, r \in Callers :
       /\ t # u
       /\ callers.of[t].op = "kill" /\ callers.of[t].pc = "idle"
       /\ callers.of[u].op = "kill" /\ callers.of[u].pc = "idle"
       /\ callers.of[r].pc = "wait"
       /\ \A i \in Cmds(nCmds) :
             /\ ctl[i].Finished
             /\ proc[i] = "exited"
             /\ NCmdFinished(i) = 1

\* Controller i was killed before any Run() marked it started: both flags
\* set and no cmd_started in the log.
KilledIdle(i) == ctl[i].Started /\ ctl[i].Finished /\ NCmdStarted(i) = 0

\* A Kill() that finds the controller not started sets both flags and
\* nothing else; a Run() that returns on a controller killed idle returns
\* true with nothing changed.
C15_Step ==
    \A t \in Callers :
       LET i == callers.of[t].on IN
          /\ (InKill(t) /\ CallReturns(t) /\ ~ctl[i].Started) =>
                /\ ctl'[i] = [Started |-> TRUE, Finished |-> TRUE]
                /\ UNCHANGED <<proc, exitErr, events>>
          /\ (InRun(t) /\ CallReturns(t) /\ KilledIdle(i)) =>
                /\ callers'.of[t].ret
                /\ UNCHANGED controllerVars

C15_NeverLaunched ==
    \A i \in Cmds(nCmds) :
       KilledIdle(i) =>
          /\ proc[i] = "nil"
          /\ NCmdFinished(i) = 0
          /\ callers.starts = 0
          /\ \A t \in Callers : callers.of[t].pc \notin {"launch", "wait", "relock", "finish"}

\* C15: a Kill() on a controller that no Run() has marked started sets
\* Started and Finished and emits nothing; from then on every Run() on it
\* returns true at its re-entry guard: no Cmd.Start, no cmd_started, no
\* cmd_finished, ever.
C15_KillBeforeRun ==
    /\ [][C15_Step]_vars
    /\ [](C15_NeverLaunched)

\* A Kill() came first; afterwards two callers' Run() calls have returned
\* (one caller has made two calls): they returned true and the log is
\* empty.
C15_Witness ==
    \E t, u, r \in Callers :
       /\ u # r
       /\ callers.of[t].op = "kill" /\ callers.of[t].pc = "idle"
       /\ callers.of[u].op = "run" /\ callers.of[u].pc = "idle"
       /\ callers.of[u].calls = MaxCalls /\ callers.of[u].ret
       /\ callers.of[r].op = "run" /\ callers.of[r].pc = "idle" /\ callers.of[r].ret
       /\ \A i \in Cmds(nCmds) : KilledIdle(i)
       /\ events = <<>>

\* One step seen from controller i: the flags only go from false to true;
\* once Finished is set the flags stay as they are, no event for i is
\* added to the log, and the process is neither launched nor killed (the
\* only change left is Cmd.Wait collecting a process that has already
\* ended).
C16_Step ==
    \A i \in Cmds(nCmds) :
       /\ ctl[i].Started => ctl'[i].Started
       /\ ctl[i].Finished => ctl'[i].Finished
       /\ ctl[i].Finished =>
             /\ ctl'[i] = ctl[i]
             /\ \A k \in (DOMAIN events') \ (DOMAIN events) : events'[k].cmd # i
             /\ \/ proc'[i] = proc[i]
                \/ proc[i] = "exited" /\ proc'[i] = "reaped"
             /\ exitErr'[i] = exitErr[i]

C16_NoFinishedWithoutStarted ==
    \A i \in Cmds(nCmds) :
       /\ ctl[i].Finished => ctl[i].Started
       /\ ctl[i].Finished => proc[i] # "running"

\* C16: the flags (Started, Finished) of a controller only change from
\* false to true, along Idle -> Running -> Finished or Idle -> Finished:
\* Finished without Started is unreachable, and once Finished is set no
\* Run() or Kill() changes the flags, launches or kills a process, or emits
\* an event for that controller.
C16_FlagsMonotoneFinishedTerminal ==
    /\ [](C16_NoFinishedWithoutStarted)
    /\ [][C16_Step]_vars

\* Kill() finished a controller whose process was running and emitted its
\* cmd_finished; after that the pending Run() came back from Cmd.Wait and
\* returned, and a caller made a further call of Kill(): still that one
\* event, the one Kill emitted.
C16_Witness ==
    \E t, r \in Callers :
       /\ callers.of[t].op = "kill" /\ callers.of[t].pc = "idle"
       /\ callers.of[t].calls = MaxCalls
       /\ callers.of[r].op = "run" /\ callers.of[r].pc = "idle" /\ callers.of[r].ret
       /\ \A i \in Cmds(nCmds) :
             /\ ctl[i].Finished
             /\ proc[i] = "reaped"
             /\ exitErr[i]
             /\ NCmdFinished(i) = 1
             /\ \A k \in EventIdx(EventTypeCmdFinished, i) : events[k].err = errNil

\* The callers whose Run() is past the re-entry guard.
PastGuard == {t \in Callers : callers.of[t].pc \in {"launch", "wait", "relock", "finish"}}

C17_AtMostOneLaunch ==
    /\ callers.starts <= 1
    /\ Cardinality(PastGuard) <= 1
    /\ \A i \in Cmds(nCmds) : NCmdStarted(i) <= 1

\* A Run() that finds Started or Finished set at its guard returns true in
\* that step and changes neither flags, process nor event log.
C17_GuardedRunIsNoOp ==
    \A t \in Callers :
       LET i == callers.of[t].on IN
          (/\ callers.of[t].pc = "runCheck"
           /\ callers'.of[t] # callers.of[t]
           /\ ctl[i].Started \/ ctl[i].Finished)
             => /\ callers'.of[t].pc = "idle"
                /\ callers'.of[t].ret
                /\ UNCHANGED controllerVars

\* C17: Run() is idempotent and launches at most once: over any number of
\* calls of Run() on one controller, one after the other or at the same
\* time, Cmd.Start is called at most once and cmd_started is emitted at most
\* once, and a Run() that finds the controller started or finished returns
\* true at once without emitting an event.
C17_RunIdempotent ==
    /\ [](C17_AtMostOneLaunch)
    /\ [][C17_GuardedRunIsNoOp]_vars

\* One caller's Run() launched the process and is inside Cmd.Wait; while
\* it waits, another caller has called Run() MaxCalls times and a third at
\* least once: all returned true, Cmd.Start was called once and the log
\* holds the one cmd_started and nothing else.
C17_Witness ==
    \E t, u, r \in Callers :
       /\ u # r
       /\ callers.of[t].pc = "wait"
       /\ callers.of[u].op = "run" /\ callers.of[u].pc = "idle"
       /\ callers.of[u].calls = MaxCalls /\ callers.of[u].ret
       /\ callers.of[r].op = "run" /\ callers.of[r].pc = "idle" /\ callers.of[r].ret
       /\ callers.starts = 1
       /\ Len(events) = 1
       /\ \A i \in Cmds(nCmds) :
             /\ ctl[i].Started /\ ~ctl[i].Finished
             /\ proc[i] = "running"
             /\ NCmdStarted(i) = 1

\* Kill() marked the launched controller i finished while its Run() has not
\* yet been through its second locked section.
KilledMidFlight(i) ==
    ctl[i].Finished /\ taskPc[i] \in {"wait", "relock", "finish"}

\* The step of command i's task that runs lib.go:347-353.
FinishStep(i) == taskPc[i] = "finish" /\ taskPc'[i] = "afterRun"

\* The race of Run() and Kill() for a launched command, step by step: a
\* Run() that finds Finished set returns true and emits nothing, and the
\* task then leaves the shared outcome alone; a Kill() that finds Finished
\* set emits nothing.
C21_Step ==
    /\ \A i \in Cmds(nCmds) :
          /\ (FinishStep(i) /\ ctl[i].Finished) =>
                (runRet'[i] /\ UNCHANGED <<ctl, events>>)
          /\ (taskPc[i] = "afterRun" /\ taskPc'[i] # "afterRun" /\ runRet[i]) =>
                UNCHANGED err
    /\ (KillStep /\ ctl[killIdx].Finished) => UNCHANGED <<ctl, proc, events>>

C21_OneEmitter ==
    \A i \in Cmds(nCmds) :
       /\ KilledMidFlight(i) => (NCmdFinished(i) = 1 /\ runRet[i])
       /\ (ctl[i].Finished /\ proc[i] # "nil") => NCmdFinished(i) = 1

\* C21: when Kill() marks a launched controller finished before Run()
\* re-takes the lock after Cmd.Wait, Run() returns true and emits nothing,
\* so the one cmd_finished of the command is Kill's and the killed command
\* never makes its task write errCmdFailed; when Run() marks it finished
\* first, Kill() emits nothing.  Exactly one cmd_finished either way.
C21_KillRunRace ==
    /\ [][C21_Step]_vars
    /\ [](C21_OneEmitter)

\* A command was killed while its process ran (Kill's cmd_finished carries
\* no error although the process ended with one); its Run() then came back
\* from Cmd.Wait, returned true and its task ended; nobody wrote
\* errCmdFailed and Run returned the interrupt's outcome.
C21_Witness ==
    /\ Returned
    /\ retVal = errInterrupted
    /\ err = errInterrupted
    /\ ~SomeCmdFailed
    /\ \E i \in Cmds(nCmds) :
          /\ taskPc[i] = "done"
          /\ proc[i] = "reaped"
          /\ exitErr[i]
          /\ NCmdFinished(i) = 1
          /\ \A k \in EventIdx(EventTypeCmdFinished, i) : events[k].err = errNil

\* The step of command i's task in which Cmd.Start fails (lib.go:333-339).
LaunchFailStep(i) == taskPc[i] = "launch" /\ taskPc'[i] = "afterRun"

\* Command i's launch failed: cmd_started was emitted and no process exists.
LaunchFailed(i) ==
    /\ NCmdStarted(i) = 1
    /\ proc[i] = "nil"
    /\ taskPc[i] # "launch"

C22_Step ==
    /\ \A i \in Cmds(nCmds) :
          LaunchFailStep(i) =>
             /\ ctl'[i] = [Started |-> TRUE, Finished |-> TRUE]
             /\ events' = Append(events, newCmdFinishedEvent(i, errStart))
             /\ ~runRet'[i]
             /\ proc'[i] = "nil"
    /\ (KillStep /\ LaunchFailed(killIdx)) => UNCHANGED <<ctl, proc, exitErr, events>>

C22_AfterLaunchFailure ==
    \A i \in Cmds(nCmds) :
       LaunchFailed(i) =>
          /\ ctl[i].Finished
          /\ ~runRet[i]
          /\ taskPc[i] \notin {"wait", "relock", "finish"}
          /\ NCmdFinished(i) = 1
          /\ \A a \in EventIdx(EventTypeCmdStarted, i) :
                \A b \in EventIdx(EventTypeCmdFinished, i) :
                   a < b /\ events[b].err = errStart

\* C22: when Cmd.Start fails, Run() marks the controller finished, has
\* emitted cmd_started and emits exactly one cmd_finished, which carries the
\* launch error, returns false and never waits on a process; a later Kill()
\* on that controller calls no Process.Kill and emits nothing.
C22_LaunchFailure ==
    /\ [][C22_Step]_vars
    /\ [](C22_AfterLaunchFailure)

\* With fastFail, the only command failed to launch, the kill loop went
\* over its controller afterwards and Run returned errCmdFailed: the log
\* holds the cmd_started and the one cmd_finished of the launch failure.
C22_Witness ==
    /\ Returned
    /\ fastFail
    /\ nCmds = 1
    /\ retVal = errCmdFailed
    /\ \A i \in Cmds(nCmds) :
          /\ LaunchFailed(i)
          /\ taskPc[i] = "done"
          /\ NCmdFinished(i) = 1

\* A Kill() that finds the controller started and not finished: Finished is
\* set, a running process is ended (one that has ended already stays as it
\* is), and one event is added to the log, the cmd_finished of that
\* command, with the error of Process.Kill, which is non-nil exactly when
\* the process had already been waited for.
C23_Step ==
    \A t \in Callers :
       LET i == callers.of[t].on IN
          (InKill(t) /\ CallReturns(t) /\ MidFlight(ctl[i])) =>
             /\ ctl'[i] = [Started |-> TRUE, Finished |-> TRUE]
             /\ proc'[i] = (IF proc[i] = "running" THEN "exited" ELSE proc[i])
             /\ Len(events') = Len(events) + 1
             /\ events'[Len(events')].type = EventTypeCmdFinished
             /\ events'[Len(events')].cmd = i
             /\ (events'[Len(events')].err # errNil) <=> (proc[i] = "reaped")
             /\ events'[Len(events')].err \in {errNil, errKill}

\* C23: Kill() on a controller that is started and not finished marks it
\* finished, calls Process.Kill and emits exactly one cmd_finished, which
\* carries an error if and only if Process.Kill itself failed.
C23_KillOfRunning ==
    /\ [][C23_Step]_vars
    /\ [](\A i \in Cmds(nCmds) : NCmdFinished(i) <= 1)

\* Kill() came between Cmd.Wait returning and Run() re-taking the lock:
\* Process.Kill failed and the one cmd_finished carries that error; the
\* Run() has returned true since.
C23_Witness ==
    /\ KillErrEvents # {}
    /\ \E t, r \in Callers :
          /\ callers.of[t].op = "kill" /\ callers.of[t].pc = "idle"
          /\ callers.of[r].op = "run" /\ callers.of[r].pc = "idle" /\ callers.of[r].ret
    /\ \A i \in Cmds(nCmds) :
          /\ ctl[i].Finished
          /\ proc[i] = "reaped"
          /\ NCmdFinished(i) = 1

\* The controllers whose lock runner.Run holds (through Kill), and those
\* whose lock command task j holds (through Run).
LocksOfMain == {i \in Cmds(nCmds) : lock[i] = "kill"}
LocksOfTask(j) == {i \in Cmds(nCmds) : lock[i] = "run" /\ i = j}

\* C24: no task holds the locks of two controllers at once: runner.Run
\* holds a lock only inside the body of one Kill(), that of the controller
\* the kill loop is at, and holds none when it asks for the next one; a
\* command task holds at most the lock of its own controller, and only
\* inside the locked sections of Run().
C24_OneLockPerTask ==
    /\ Cardinality(LocksOfMain) <= 1
    /\ LocksOfMain = (IF mainPc = "killBody" THEN {killIdx} ELSE {})
    /\ \A j \in Cmds(nCmds) :
          /\ Cardinality(LocksOfTask(j)) <= 1
          /\ lock[j] = "run" => taskPc[j] \in {"runCheck", "launch", "finish"}
          /\ lock[j] \in {"free", "run", "kill"}

\* The kill loop is inside Kill() of the second controller, having released
\* the first one's lock, which the first command's task now holds.
C24_Witness ==
    /\ nCmds = MaxCmds
    /\ mainPc = "killBody"
    /\ killIdx = nCmds
    /\ lock[killIdx] = "kill"
    /\ \E i \in Cmds(nCmds) : i < killIdx /\ lock[i] = "run"

\* C25: for every command list of 0..MaxCmds commands, every fastFail and
\* every maxConcurrent, if the goroutines are scheduled fairly and every
\* launched process exits in the end, Run returns in the end, whether or
\* not an interrupt arrives.
C25_RunTerminates ==
    <>Returned

\* No interrupt came: with a limit of one command at a time, all commands
\* ran one after the other to their own clean exit, the waiter's send woke
\* Run, and Run returned nil.
C25_Witness ==
    /\ Returned
    /\ nSignals = 0
    /\ nCmds = MaxCmds
    /\ maxConcurrent = 1
    /\ waiterPc = "done"
    /\ retVal = errNil
    /\ \A i \in Cmds(nCmds) : OwnCleanExit(i) /\ taskPc[i] = "done"

\* Every goroutine runner.Run spawned has ended, except the signal goroutine
\* while it still waits for a signal.
AllTasksEnded ==
    /\ \A i \in Cmds(nCmds) : taskPc[i] = "done"
    /\ waiterPc = "done"
    /\ watcherPc \in {"recv", "done"}

\* C26: every command task is admitted by the semaphore, releases its
\* permit and ends, and the waiter and every goroutine that sends on doneC
\* end as well: in the end no goroutine spawned by Run is blocked in P(1)
\* or in a send on doneC, also after Run has returned.
C26_AllTasksTerminate ==
    <>[]AllTasksEnded

\* C27: the outcome in the run-finished event is the outcome Run returns:
\* once Run has returned, the event's err is nil exactly when the returned
\* value is nil, and is the returned error otherwise.
C27_FinishedEventMatchesReturn ==
    Returned =>
       \A k \in EventIdx(EventTypeFinished, 0) : events[k].err = retVal

\* Whoever holds the lock in Kill() and finds the controller started and
\* not finished finds Cmd.Process set; more generally a controller that is
\* started, not finished and without a process has its lock held by the
\* Run() that is about to call Cmd.Start.
C28_ProcessSetWhenMidFlight ==
    /\ \A t \in Callers :
          LET i == callers.of[t].on IN
             (InKill(t) /\ MidFlight(ctl[i])) => proc[i] # "nil"
    /\ \A i \in Cmds(nCmds) :
          (MidFlight(ctl[i]) /\ proc[i] = "nil") =>
             /\ lock[i] = "run"
             /\ \E t \in Callers : callers.of[t].pc = "launch" /\ callers.of[t].on = i

\* A Kill() that finds the controller started and not finished adds its
\* cmd_finished to the log.
C28_Step ==
    \A t \in Callers :
       LET i == callers.of[t].on IN
          (InKill(t) /\ CallReturns(t) /\ MidFlight(ctl[i])) =>
             /\ Len(events') = Len(events) + 1
             /\ events'[Len(events')] =
                   newCmdFinishedEvent(i, events'[Len(events')].err)

\* C28: whenever Kill() finds a controller started and not finished, its
\* process has been launched (Cmd.Process is set), because Run() keeps the
\* lock from setting Started until Cmd.Start has returned; so Kill() never
\* marks a started controller finished without emitting its cmd_finished.
C28_KillFindsProcess ==
    /\ [](C28_ProcessSetWhenMidFlight)
    /\ [][C28_Step]_vars

\* Kill() holds the lock of a controller that is started and not finished:
\* the process is there and running, and the Run() that launched it is
\* inside Cmd.Wait.
C28_Witness ==
    \E t, r \in Callers :
       LET i == callers.of[t].on IN
          /\ InKill(t)
          /\ MidFlight(ctl[i])
          /\ proc[i] = "running"
          /\ callers.of[r].pc = "wait"
          /\ callers.of[r].on = i

\* C29: update-license is idempotent on file contents: for every file, a
\* second run (updateLines on the joined and re-split result of the first)
\* leaves the result of the first run as it is; no second license header is
\* inserted, also when the file starts with a generated-code line followed
\* by comment lines.
C29_UpdateIdempotent ==
    (file.runs = MaxRuns /\ ~file.panicked) => file.lines = file.before

====
